---------------------------- MODULE Spec2Model ----------------------------
(***************************************************************************)
(* Model of the fcntllock package (src/main.go): whole-file exclusive     *)
(* locks built on fcntl(F_SETLK) POSIX record locks.                       *)
(*                                                                         *)
(* The state is the Lock structs (embedded ReadWriteSeekCloser, fd), one   *)
(* descriptor table per process, the kernel's record locks per lock file,  *)
(* the lock directory and the lock files in it, and the position of every  *)
(* process inside the call it is running.                                  *)
(*                                                                         *)
(* Every process is a sequential program: it runs one call at a time, on   *)
(* any of its Lock instances.  Processes interleave at the granularity of  *)
(* TryLock, UnLock and the steps of the retry loop of LockContext.         *)
(*                                                                         *)
(* Descriptors 0..2 are the standard streams, which every process keeps    *)
(* open; open(2) returns the lowest free descriptor.  Record locks belong  *)
(* to the (process, file) pair: a process never conflicts with itself, and *)
(* closing any descriptor of a file drops the locks of the process on it.  *)
(***************************************************************************)
EXTENDS Integers, Sequences, FiniteSets, TLC

(***************************************************************************)
(* Bounds                                                                  *)
(***************************************************************************)
\* the counters of fn() and createLockDir calls of a LockContext call stop
\* counting at MaxAttempts and MaxAttempts + 1; the loop itself goes on
MaxAttempts == 2
\* number of processes that may be inside LockContext at the same time
MaxWaiters == 1

(***************************************************************************)
(* Processes, lock files and Lock instances                                *)
(***************************************************************************)
Proc == {"A", "B"}
File == {"F", "G"}

\* InstProc[i] is the process that owns Lock instance i, InstPath[i] its path;
\* the last instance is a second Lock of process A on lock file F
InstProc == <<"A", "A", "B", "B", "A">>
InstPath == <<"F", "G", "F", "G", "F">>
Inst == DOMAIN InstProc

InstOf(p) == {i \in Inst : InstProc[i] = p}

\* one Lock per process and lock file
Primary ==
    {i \in Inst : \A j \in Inst :
        InstProc[j] = InstProc[i] /\ InstPath[j] = InstPath[i] => i <= j}

\* the Locks on lock file F, and those together with the other Lock of A
OneFile == {i \in Primary : InstPath[i] = "F"}
Main == OneFile \cup (InstOf("A") \cap Primary)

\* the Locks on lock file F, the second Lock of A on it included
Twins == {i \in Inst : InstPath[i] = "F"}

NoFile == "nofile"
StdFds == {0, 1, 2}
\* a process never has more lock files open than it has Lock instances
MaxFd == 2 + Cardinality(Inst)
Fds == 3..MaxFd

\* filepath.Dir(path): the lock files share one lock directory
Dir(f) == "lockdir"

(***************************************************************************)
(* Errors: the operation that failed, the errno and the path it names      *)
(***************************************************************************)
Nil == [op |-> "", errno |-> "nil", path |-> ""]
Err(op, errno, path) == [op |-> op, errno |-> errno, path |-> path]
CtxErr == Err("context", "done", "")

VARIABLES
    made,       \* the Lock instances the processes have made with New
    rwsc,       \* rwsc[i]: lck.ReadWriteSeekCloser != nil
    fd,         \* fd[i]: lck.fd
    fdtab,      \* fdtab[p][n]: the file descriptor n of process p is open on
    flocks,     \* flocks[f]: processes holding the write lock on file f
    dirst,      \* state of the lock directory
    fexists,    \* fexists[f]: the lock file exists
    fdata,      \* fdata[f]: the lock file is not empty
    pc,         \* pc[p]: position of process p in the LockContext it runs
    cur,        \* cur[p]: instance of the LockContext call p runs
    ctxDone,    \* ctxDone[p]: the context of that call is Done
    attempts,   \* attempts[p]: fn() calls made by that call so far
    dirChecks,  \* dirChecks[p]: createLockDir calls of that call so far
    ev,         \* the last step taken: the call, its result, its system calls
    acq,        \* <<p, f>>: p got nil from TryLock/LockContext on f, and has
                \* neither called UnLock on f nor exited since
    everAcq,    \* instances that have got nil from TryLock or LockContext
    held,       \* instances that have got nil from TryLock or LockContext
                \* and have had no UnLock call since, in a process that
                \* has not exited since
    rt          \* the TryLock, UnLock, TryLock sequence being followed

vars == <<made, rwsc, fd, fdtab, flocks, dirst, fexists, fdata, pc, cur, ctxDone,
          attempts, dirChecks, ev, acq, everAcq, held, rt>>

envVars == <<dirst, fexists, fdata>>
callVars == <<pc, cur, ctxDone, attempts, dirChecks>>
histVars == <<acq, everAcq, held, rt>>

\* "dir": the directory exists and files can be opened and created in it
\* "dir_noperm": it exists, but the process may not open files in it
\* "noaccess": the process may not search the path leading to it
\* "absent": it does not exist and can be created
\* "absent_ro": it does not exist and the process may not create it
\* "notdir": the path is a regular file
\* "underfile": an ancestor of the path is a regular file
DirStates == {"dir", "dir_noperm", "noaccess", "absent", "absent_ro",
              "notdir", "underfile"}

Min(a, b) == IF a < b THEN a ELSE b

(***************************************************************************)
(* The operating system                                                    *)
(***************************************************************************)
\* open(2) hands out the lowest descriptor that is not open
LowestFree(tab) ==
    CHOOSE n \in Fds : tab[n] = NoFile /\ \A m \in Fds : m < n => tab[m] # NoFile

\* variant: the lock file is truncated when it is opened
OpenFlagsTrunc == {"O_CREATE", "O_RDWR", "O_SYNC", "O_TRUNC"}

\* the flags Lock.lock opens the lock file with
OpenFlags == {"O_CREATE", "O_RDWR", "O_SYNC"}

\* os.OpenFile(path, flags, 0666) of lock file f, the lock directory being in
\* state d: the error, and whether the file exists and holds data afterwards
OpenFile(f, d, flags) ==
    CASE d # "dir" ->
            [err |-> Err("open", "EACCES", f),
             exists |-> fexists[f], data |-> fdata[f]]
      [] d = "dir" /\ ~fexists[f] /\ "O_CREATE" \notin flags ->
            [err |-> Err("open", "ENOENT", f),
             exists |-> FALSE, data |-> FALSE]
      [] OTHER ->
            [err |-> Nil, exists |-> TRUE,
             data |-> fexists[f] /\ fdata[f] /\ "O_TRUNC" \notin flags]

\* variant: a write lock conflicts with the lock of any process, that of
\* the caller included
FcntlFlockAnyHolder(p, tab, n, typ, locks) ==
    IF n \in StdFds
    THEN [err |-> Nil, flocks |-> locks]
    ELSE IF tab[n] = NoFile
    THEN [err |-> Err("fcntl", "EBADF", ""), flocks |-> locks]
    ELSE LET g == tab[n] IN
         IF typ = "F_WRLCK"
         THEN IF locks[g] # {}
              THEN [err |-> Err("fcntl", "EAGAIN", ""), flocks |-> locks]
              ELSE [err |-> Nil, flocks |-> [locks EXCEPT ![g] = @ \cup {p}]]
         ELSE [err |-> Nil, flocks |-> [locks EXCEPT ![g] = @ \ {p}]]

\* syscall.FcntlFlock(fd, F_SETLK, ft) issued by process p whose descriptor
\* table is tab, on the kernel lock table locks
FcntlFlock(p, tab, n, typ, locks) ==
    IF n \in StdFds
    THEN [err |-> Nil, flocks |-> locks]
    ELSE IF tab[n] = NoFile
    THEN [err |-> Err("fcntl", "EBADF", ""), flocks |-> locks]
    ELSE LET g == tab[n] IN
         IF typ = "F_WRLCK"
         THEN IF locks[g] \ {p} # {}
              THEN [err |-> Err("fcntl", "EAGAIN", ""), flocks |-> locks]
              ELSE [err |-> Nil, flocks |-> [locks EXCEPT ![g] = @ \cup {p}]]
         ELSE [err |-> Nil, flocks |-> [locks EXCEPT ![g] = @ \ {p}]]

\* close(2): the descriptor is freed and the process loses its record locks
\* on the file the descriptor was open on
Close(p, tab, n, locks) ==
    IF n \in StdFds \/ tab[n] = NoFile
    THEN [fdtab |-> tab, flocks |-> locks]
    ELSE [fdtab |-> [tab EXCEPT ![n] = NoFile],
          flocks |-> [locks EXCEPT ![tab[n]] = @ \ {p}]]

(***************************************************************************)
(* createLockDir                                                           *)
(***************************************************************************)
\* variant: info.IsDir() is not looked at
createLockDirNoIsDir(f) ==
    CASE dirst \in {"dir", "dir_noperm", "notdir"} ->
            [err |-> Nil, dirst |-> dirst, sys |-> <<"stat">>]
      [] dirst = "absent" ->
            [err |-> Nil, dirst |-> "dir", sys |-> <<"stat", "mkdir">>]
      [] dirst = "absent_ro" ->
            [err |-> Err("mkdir", "EACCES", Dir(f)),
             dirst |-> dirst, sys |-> <<"stat", "mkdir">>]
      [] dirst = "underfile" ->
            [err |-> Err("stat", "ENOTDIR", Dir(f)),
             dirst |-> dirst, sys |-> <<"stat">>]
      [] dirst = "noaccess" ->
            [err |-> Err("stat", "EACCES", Dir(f)),
             dirst |-> dirst, sys |-> <<"stat">>]

createLockDir(f) ==
    CASE dirst \in {"dir", "dir_noperm"} ->
            [err |-> Nil, dirst |-> dirst, sys |-> <<"stat">>]
      [] dirst = "notdir" ->
            [err |-> Err("createLockDir", "not directory", Dir(f)),
             dirst |-> dirst, sys |-> <<"stat">>]
      [] dirst = "absent" ->
            [err |-> Nil, dirst |-> "dir", sys |-> <<"stat", "mkdir">>]
      [] dirst = "absent_ro" ->
            [err |-> Err("mkdir", "EACCES", Dir(f)),
             dirst |-> dirst, sys |-> <<"stat", "mkdir">>]
      [] dirst = "underfile" ->
            [err |-> Err("stat", "ENOTDIR", Dir(f)),
             dirst |-> dirst, sys |-> <<"stat">>]
      [] dirst = "noaccess" ->
            [err |-> Err("stat", "EACCES", Dir(f)),
             dirst |-> dirst, sys |-> <<"stat">>]

(***************************************************************************)
(* Lock.lock(false), run when the lock directory is in state d             *)
(***************************************************************************)
\* variant: the error of the lock request is dropped
lockDropErr(i, d) ==
    LET p == InstProc[i]
        f == InstPath[i]
        o == OpenFile(f, d, OpenFlags)
    IN  IF ~rwsc[i] /\ o.err # Nil
        THEN [err |-> o.err, rwsc |-> rwsc[i],
              fd |-> fd[i], fdtab |-> fdtab[p], flocks |-> flocks,
              fexists |-> fexists[f], fdata |-> fdata[f],
              sys |-> <<"open">>]
        ELSE LET opened == ~rwsc[i]
                 n    == IF opened THEN LowestFree(fdtab[p]) ELSE fd[i]
                 tab  == IF opened THEN [fdtab[p] EXCEPT ![n] = f]
                                   ELSE fdtab[p]
                 pre  == IF opened THEN <<"open">> ELSE <<>>
                 r    == FcntlFlock(p, tab, n, "F_WRLCK", flocks)
             IN  [err |-> Nil, rwsc |-> TRUE, fd |-> n, fdtab |-> tab,
                  flocks |-> r.flocks,
                  fexists |-> IF opened THEN o.exists ELSE fexists[f],
                  fdata |-> IF opened THEN o.data ELSE fdata[f],
                  sys |-> pre \o <<"fcntl">>]

\* variant: the file is not closed when the lock request fails
lockNoClose(i, d) ==
    LET p == InstProc[i]
        f == InstPath[i]
        same == [err |-> Nil, rwsc |-> rwsc[i], fd |-> fd[i],
                 fdtab |-> fdtab[p], flocks |-> flocks,
                 fexists |-> fexists[f], fdata |-> fdata[f], sys |-> <<>>]
        o == OpenFile(f, d, OpenFlags)
    IN  IF ~rwsc[i] /\ o.err # Nil
        THEN [same EXCEPT !.err = o.err, !.sys = <<"open">>]
        ELSE LET opened == ~rwsc[i]
                 n    == IF opened THEN LowestFree(fdtab[p]) ELSE fd[i]
                 tab  == IF opened THEN [fdtab[p] EXCEPT ![n] = f]
                                   ELSE fdtab[p]
                 pre  == IF opened THEN <<"open">> ELSE <<>>
                 r    == FcntlFlock(p, tab, n, "F_WRLCK", flocks)
                 c    == Close(p, tab, n, r.flocks)
             IN  IF r.err = Nil
                 THEN [err |-> Nil, rwsc |-> TRUE, fd |-> n, fdtab |-> tab,
                       flocks |-> r.flocks,
                       fexists |-> IF opened THEN o.exists ELSE fexists[f],
                       fdata |-> IF opened THEN o.data ELSE fdata[f],
                       sys |-> pre \o <<"fcntl">>]
                 ELSE [err |-> r.err, rwsc |-> FALSE, fd |-> n,
                       fdtab |-> tab, flocks |-> r.flocks,
                       fexists |-> IF opened THEN o.exists ELSE fexists[f],
                       fdata |-> IF opened THEN o.data ELSE fdata[f],
                       sys |-> pre \o <<"fcntl">>]

\* variant: when the lock request fails, a file that was open before the
\* attempt is kept open
lockKeepOpen(i, d) ==
    LET p == InstProc[i]
        f == InstPath[i]
        same == [err |-> Nil, rwsc |-> rwsc[i], fd |-> fd[i],
                 fdtab |-> fdtab[p], flocks |-> flocks,
                 fexists |-> fexists[f], fdata |-> fdata[f], sys |-> <<>>]
        o == OpenFile(f, d, OpenFlags)
    IN  IF ~rwsc[i] /\ o.err # Nil
        THEN [same EXCEPT !.err = o.err, !.sys = <<"open">>]
        ELSE LET opened == ~rwsc[i]
                 n    == IF opened THEN LowestFree(fdtab[p]) ELSE fd[i]
                 tab  == IF opened THEN [fdtab[p] EXCEPT ![n] = f]
                                   ELSE fdtab[p]
                 pre  == IF opened THEN <<"open">> ELSE <<>>
                 r    == FcntlFlock(p, tab, n, "F_WRLCK", flocks)
                 c    == Close(p, tab, n, r.flocks)
             IN  IF r.err = Nil
                 THEN [err |-> Nil, rwsc |-> TRUE, fd |-> n, fdtab |-> tab,
                       flocks |-> r.flocks,
                       fexists |-> IF opened THEN o.exists ELSE fexists[f],
                       fdata |-> IF opened THEN o.data ELSE fdata[f],
                       sys |-> pre \o <<"fcntl">>]
                 ELSE IF ~opened
                 THEN [same EXCEPT !.err = r.err, !.sys = <<"fcntl">>]
                 ELSE [err |-> r.err, rwsc |-> FALSE, fd |-> n,
                       fdtab |-> c.fdtab, flocks |-> c.flocks,
                       fexists |-> IF opened THEN o.exists ELSE fexists[f],
                       fdata |-> IF opened THEN o.data ELSE fdata[f],
                       sys |-> pre \o <<"fcntl", "close">>]

lock(i, d) ==
    LET p == InstProc[i]
        f == InstPath[i]
        same == [err |-> Nil, rwsc |-> rwsc[i], fd |-> fd[i],
                 fdtab |-> fdtab[p], flocks |-> flocks,
                 fexists |-> fexists[f], fdata |-> fdata[f], sys |-> <<>>]
        o == OpenFile(f, d, OpenFlags)
    IN  IF ~rwsc[i] /\ o.err # Nil
        THEN [same EXCEPT !.err = o.err, !.sys = <<"open">>]
        ELSE LET opened == ~rwsc[i]
                 n    == IF opened THEN LowestFree(fdtab[p]) ELSE fd[i]
                 tab  == IF opened THEN [fdtab[p] EXCEPT ![n] = f]
                                   ELSE fdtab[p]
                 pre  == IF opened THEN <<"open">> ELSE <<>>
                 r    == FcntlFlock(p, tab, n, "F_WRLCK", flocks)
                 c    == Close(p, tab, n, r.flocks)
             IN  IF r.err = Nil
                 THEN [err |-> Nil, rwsc |-> TRUE, fd |-> n, fdtab |-> tab,
                       flocks |-> r.flocks,
                       fexists |-> IF opened THEN o.exists ELSE fexists[f],
                       fdata |-> IF opened THEN o.data ELSE fdata[f],
                       sys |-> pre \o <<"fcntl">>]
                 ELSE [err |-> r.err, rwsc |-> FALSE, fd |-> n,
                       fdtab |-> c.fdtab, flocks |-> c.flocks,
                       fexists |-> IF opened THEN o.exists ELSE fexists[f],
                       fdata |-> IF opened THEN o.data ELSE fdata[f],
                       sys |-> pre \o <<"fcntl", "close">>]

(***************************************************************************)
(* Lock.TryLock as a function of the state: createLockDir, then lock       *)
(***************************************************************************)
\* variant: the error of createLockDir is ignored
tryLockIgnoreDirErr(i) ==
    LET f == InstPath[i]
        d == createLockDir(f)
        l == lock(i, d.dirst)
    IN  [err |-> l.err, rwsc |-> l.rwsc, fd |-> l.fd,
         fdtab |-> l.fdtab, flocks |-> l.flocks,
         fexists |-> l.fexists, fdata |-> l.fdata,
         dirst |-> d.dirst, sys |-> d.sys \o l.sys]

tryLock(i) ==
    LET f == InstPath[i]
        d == createLockDir(f)
        l == lock(i, d.dirst)
    IN  IF d.err # Nil
        THEN [err |-> d.err, rwsc |-> rwsc[i], fd |-> fd[i],
              fdtab |-> fdtab[InstProc[i]], flocks |-> flocks,
              fexists |-> fexists[f], fdata |-> fdata[f],
              dirst |-> d.dirst, sys |-> d.sys]
        ELSE [err |-> l.err, rwsc |-> l.rwsc, fd |-> l.fd,
              fdtab |-> l.fdtab, flocks |-> l.flocks,
              fexists |-> l.fexists, fdata |-> l.fdata,
              dirst |-> d.dirst, sys |-> d.sys \o l.sys]

\* the state change of one TryLock call on instance i with outcome r
ApplyTryLock(i, r) ==
    LET p == InstProc[i]
        f == InstPath[i]
    IN  /\ rwsc' = [rwsc EXCEPT ![i] = r.rwsc]
        /\ fd' = [fd EXCEPT ![i] = r.fd]
        /\ fdtab' = [fdtab EXCEPT ![p] = r.fdtab]
        /\ flocks' = r.flocks
        /\ fexists' = [fexists EXCEPT ![f] = r.fexists]
        /\ fdata' = [fdata EXCEPT ![f] = r.fdata]
        /\ dirst' = r.dirst
        /\ acq' = IF r.err = Nil THEN acq \cup {<<p, f>>} ELSE acq
        /\ everAcq' = IF r.err = Nil THEN everAcq \cup {i} ELSE everAcq
        /\ held' = IF r.err = Nil THEN held \cup {i} ELSE held

(***************************************************************************)
(* History, for the properties.  everAcq is the set of instances on which  *)
(* a TryLock or a LockContext has returned nil.  rt follows the calls on   *)
(* one instance at a time, starting at a TryLock that returns nil:         *)
(*   "T":   the last call on rt.inst was a TryLock that returned nil       *)
(*   "TU":  the last two calls on it were that TryLock and an UnLock       *)
(*   "TUT": the last three calls on it were those and a TryLock            *)
(***************************************************************************)
NoRt == [inst |-> 0, stage |-> ""]

RtTryLock(i, e) ==
    CASE rt.inst = i /\ rt.stage = "TU" -> [inst |-> i, stage |-> "TUT"]
      [] e = Nil -> [inst |-> i, stage |-> "T"]
      [] rt.inst = i -> NoRt
      [] OTHER -> rt

RtUnLock(i) ==
    CASE rt.inst = i /\ rt.stage = "T" -> [inst |-> i, stage |-> "TU"]
      [] rt.inst = i -> NoRt
      [] OTHER -> rt

RtOther(i) == IF rt.inst = i THEN NoRt ELSE rt

(***************************************************************************)
(* The last step, for the properties: op is the call it belongs to, step   *)
(* the part of the call, returned whether the call returned in this step   *)
(* and ret the error it returned, fnErr the error of the fn() call of an   *)
(* attempt, sys the system calls issued in the step, attempts and          *)
(* dirChecks the fn() and createLockDir calls the call has made up to and  *)
(* including the step, done whether the context was Done when the fn()     *)
(* call of an attempt was made.                                            *)
(***************************************************************************)
Event(op, step, i, returned, e, fe, s, na, nd) ==
    [op |-> op, step |-> step, inst |-> i, returned |-> returned, ret |-> e,
     fnErr |-> fe, sys |-> s, attempts |-> na, dirChecks |-> nd,
     done |-> FALSE]

NoEvent == Event("", "", 0, FALSE, Nil, Nil, <<>>, 0, 0)

\* the instance a process starts out on
First(p) == CHOOSE i \in InstOf(p) : \A j \in InstOf(p) : i <= j

(***************************************************************************)
(* Initial state: after New(path) in every process.  m is the set of Lock   *)
(* instances made, D the contents the lock files may have.                 *)
(***************************************************************************)
InitFiles(m, D) ==
    /\ made = m
    /\ rwsc = [i \in Inst |-> FALSE]
    /\ fd = [i \in Inst |-> 0]
    /\ fdtab = [p \in Proc |-> [n \in Fds |-> NoFile]]
    /\ flocks = [f \in File |-> {}]
    /\ dirst \in DirStates
    /\ fexists \in [File -> BOOLEAN]
    /\ fdata \in D
    /\ \A f \in File : fdata[f] => fexists[f]
    /\ (\E f \in File : fexists[f]) => dirst \in {"dir", "dir_noperm", "noaccess"}
    /\ pc = [p \in Proc |-> "idle"]
    /\ cur = [p \in Proc |-> First(p)]
    /\ ctxDone = [p \in Proc |-> FALSE]
    /\ attempts = [p \in Proc |-> 0]
    /\ dirChecks = [p \in Proc |-> 0]
    /\ ev = NoEvent
    /\ acq = {}
    /\ everAcq = {}
    /\ held = {}
    /\ rt = NoRt

\* the lock files that exist are empty
NoData == {[f \in File |-> FALSE]}

InitWith(m) == InitFiles(m, NoData)

\* process A has made a Lock on each lock file, process B a Lock on F
Init == InitWith(Main)

\* the same, and the lock files that exist may hold data
InitData == InitFiles(Main, [File -> BOOLEAN])

\* every process has made a Lock on every lock file
InitAll == InitWith(Primary)

\* process A has made two Locks on lock file F, process B one
InitTwins == InitWith(Twins)

(***************************************************************************)
(* Lock.TryLock                                                            *)
(***************************************************************************)
TryLock(i) ==
    LET p == InstProc[i] IN
    /\ i \in made
    /\ pc[p] = "idle"
    /\ \E r \in {tryLock(i)} :
         /\ ApplyTryLock(i, r)
         /\ ev' = Event("TryLock", "call", i, TRUE, r.err, Nil, r.sys, 0, 0)
         /\ rt' = RtTryLock(i, r.err)
    /\ UNCHANGED <<made, callVars>>

(***************************************************************************)
(* Lock.UnLock                                                             *)
(***************************************************************************)
\* variant: the file is closed instead of unlocked
unLockClose(i) ==
    LET p == InstProc[i]
        c == Close(p, fdtab[p], fd[i], flocks)
    IN  [err |-> Nil, fdtab |-> c.fdtab, flocks |-> c.flocks,
         sys |-> <<"close">>]

unLock(i) ==
    LET p == InstProc[i]
        r == FcntlFlock(p, fdtab[p], fd[i], "F_UNLCK", flocks)
    IN  [err |-> r.err, fdtab |-> fdtab[p], flocks |-> r.flocks,
         sys |-> <<"fcntl">>]

UnLock(i) ==
    LET p == InstProc[i] IN
    /\ i \in made
    /\ pc[p] = "idle"
    /\ \E r \in {unLock(i)} :
           /\ flocks' = r.flocks
           /\ fdtab' = [fdtab EXCEPT ![p] = r.fdtab]
           /\ ev' = Event("UnLock", "call", i, TRUE, r.err, Nil, r.sys, 0, 0)
           /\ acq' = acq \ {<<p, InstPath[i]>>}
           /\ held' = held \ {i}
           /\ rt' = RtUnLock(i)
    /\ UNCHANGED <<made, rwsc, fd, envVars, callVars, everAcq>>

(***************************************************************************)
(* Lock.LockContext and Lock.try                                           *)
(***************************************************************************)
\* variant: LockContext hands the lock attempt alone to try
tryFnLockOnly(i) ==
    LET l == lock(i, dirst)
    IN  [err |-> l.err, rwsc |-> l.rwsc, fd |-> l.fd, fdtab |-> l.fdtab,
         flocks |-> l.flocks, fexists |-> l.fexists, fdata |-> l.fdata,
         dirst |-> dirst, sys |-> l.sys]

\* the function LockContext hands to try as fn
tryFn(i) == tryLock(i)

\* try, on entry: ctx.Err() decides whether the loop is entered
tryEntry(done) == IF done THEN CtxErr ELSE Nil

\* variant: the test of the error of fn() is inverted
afterFnInverted(e) ==
    IF e # Nil THEN [pc |-> "idle", ret |-> Nil]
               ELSE [pc |-> "select", ret |-> Nil]

\* variant: try gives up on a permission error of fn() and returns it
afterFnFailFast(e) ==
    CASE e = Nil -> [pc |-> "idle", ret |-> Nil]
      [] e.errno = "EACCES" -> [pc |-> "idle", ret |-> e]
      [] OTHER -> [pc |-> "select", ret |-> Nil]

\* variant: after fn() the context is looked at first, and its error
\* returned when it is Done
afterFnCheckCtx(e) ==
    IF \E p \in Proc : pc[p] = "attempt" /\ ctxDone[p]
    THEN [pc |-> "idle", ret |-> CtxErr]
    ELSE IF e = Nil THEN [pc |-> "idle", ret |-> Nil]
                    ELSE [pc |-> "select", ret |-> Nil]

\* try, after fn() returned e: return nil, or go on to the select
afterFn(e) ==
    IF e = Nil THEN [pc |-> "idle", ret |-> Nil]
               ELSE [pc |-> "select", ret |-> Nil]

\* variant: the select returns the error of the lock request
selectDoneLockErr(done) == Err("fcntl", "EAGAIN", "")

\* try, case <-ctx.Done() of the select
selectDone(done) == CtxErr

\* number of directory checks (stat of the lock directory) in a step
NumStat(s) == Cardinality({k \in DOMAIN s : s[k] = "stat"})

\* the call of process p returns: its frame is gone
Return(p) ==
    /\ pc' = [pc EXCEPT ![p] = "idle"]
    /\ cur' = [cur EXCEPT ![p] = First(p)]
    /\ ctxDone' = [ctxDone EXCEPT ![p] = FALSE]
    /\ attempts' = [attempts EXCEPT ![p] = 0]
    /\ dirChecks' = [dirChecks EXCEPT ![p] = 0]

\* LockContext up to the first fn() call: createLockDir, then the entry of
\* try.  done tells whether the context handed in is already Done.
LockContextStart(i, done) ==
    LET p == InstProc[i] IN
    /\ i \in made
    /\ pc[p] = "idle"
    /\ Cardinality({q \in Proc : pc[q] # "idle"}) < MaxWaiters
    /\ \E d \in {createLockDir(InstPath[i])} :
       LET e == IF d.err # Nil THEN d.err ELSE tryEntry(done)
       IN  /\ dirst' = d.dirst
           /\ IF e # Nil
              THEN /\ ev' = Event("LockContext", "entry", i, TRUE, e, Nil,
                                  d.sys, 0, 1)
                   /\ UNCHANGED callVars
              ELSE /\ ev' = Event("LockContext", "entry", i, FALSE, Nil, Nil,
                                  d.sys, 0, 1)
                   /\ pc' = [pc EXCEPT ![p] = "attempt"]
                   /\ cur' = [cur EXCEPT ![p] = i]
                   /\ ctxDone' = [ctxDone EXCEPT ![p] = done]
                   /\ attempts' = [attempts EXCEPT ![p] = 0]
                   /\ dirChecks' = [dirChecks EXCEPT ![p] = 1]
    /\ rt' = RtOther(i)
    /\ UNCHANGED <<made, rwsc, fd, fdtab, flocks, fexists, fdata, acq,
                   everAcq, held>>

\* one iteration of the loop of try up to the select: fn()
TryAttempt(p) ==
    /\ pc[p] = "attempt"
    /\ \E r \in {tryFn(cur[p])} :
       LET i == cur[p]
           a == afterFn(r.err)
           na == Min(attempts[p] + 1, MaxAttempts)
           nd == Min(dirChecks[p] + NumStat(r.sys), MaxAttempts + 1)
       IN  /\ ApplyTryLock(i, r)
           /\ IF a.pc = "idle"
              THEN /\ ev' = [Event("LockContext", "attempt", i, TRUE, a.ret,
                                   r.err, r.sys, na, nd)
                                EXCEPT !.done = ctxDone[p]]
                   /\ Return(p)
              ELSE /\ ev' = [Event("LockContext", "attempt", i, FALSE, Nil,
                                   r.err, r.sys, na, nd)
                                EXCEPT !.done = ctxDone[p]]
                   /\ pc' = [pc EXCEPT ![p] = a.pc]
                   /\ attempts' = [attempts EXCEPT ![p] = na]
                   /\ dirChecks' = [dirChecks EXCEPT ![p] = nd]
                   /\ UNCHANGED <<cur, ctxDone>>
    /\ UNCHANGED <<made, rt>>

\* the select of try, case <-ctx.Done()
TrySelectDone(p) ==
    /\ pc[p] = "select"
    /\ ctxDone[p]
    /\ LET e == selectDone(ctxDone[p]) IN
         /\ ev' = Event("LockContext", "done", cur[p], TRUE, e, Nil, <<>>,
                        attempts[p], dirChecks[p])
    /\ Return(p)
    /\ UNCHANGED <<made, rwsc, fd, fdtab, flocks, envVars, histVars>>

\* the select of try, case <-time.After(retryDelay).  When the context is
\* Done as well, both cases are ready and select picks either.
TrySelectTimer(p) ==
    /\ pc[p] = "select"
    /\ pc' = [pc EXCEPT ![p] = "attempt"]
    /\ ev' = Event("LockContext", "timer", cur[p], FALSE, Nil, Nil, <<>>,
                   attempts[p], dirChecks[p])
    /\ UNCHANGED <<made, rwsc, fd, fdtab, flocks, envVars, cur, ctxDone,
                   attempts, dirChecks, histVars>>

\* the deadline of the context of the running LockContext passes, or its
\* cancel function is called
CtxFire(p) ==
    /\ pc[p] # "idle"
    /\ ~ctxDone[p]
    /\ ctxDone' = [ctxDone EXCEPT ![p] = TRUE]
    /\ ev' = NoEvent
    /\ UNCHANGED <<made, rwsc, fd, fdtab, flocks, envVars, pc, cur,
                   attempts, dirChecks, histVars>>

(***************************************************************************)
(* The environment                                                         *)
(***************************************************************************)
\* process p exits: the kernel closes its descriptors and drops its locks;
\* the process that runs under this name next starts from New(path)
ProcExit(p) ==
    /\ \/ pc[p] # "idle"
       \/ \E i \in InstOf(p) : rwsc[i] \/ fd[i] # 0
    /\ fdtab' = [fdtab EXCEPT ![p] = [n \in Fds |-> NoFile]]
    /\ flocks' = [f \in File |-> flocks[f] \ {p}]
    /\ rwsc' = [i \in Inst |-> IF i \in InstOf(p) THEN FALSE ELSE rwsc[i]]
    /\ fd' = [i \in Inst |-> IF i \in InstOf(p) THEN 0 ELSE fd[i]]
    /\ everAcq' = everAcq \ InstOf(p)
    /\ held' = held \ InstOf(p)
    /\ rt' = IF rt.inst \in InstOf(p) THEN NoRt ELSE rt
    /\ Return(p)
    /\ ev' = Event("exit", "", First(p), FALSE, Nil, Nil, <<>>, 0, 0)
    /\ acq' = {x \in acq : x[1] # p}
    /\ UNCHANGED <<made, envVars>>

\* an administrator changes the permissions of the lock directory or of the
\* path leading to it; files and directories themselves stay in place
Chmod(d) ==
    /\ \/ dirst \in {"dir", "dir_noperm", "noaccess"}
            /\ d \in {"dir", "dir_noperm", "noaccess"}
       \/ dirst \in {"absent", "absent_ro"} /\ d \in {"absent", "absent_ro"}
    /\ d # dirst
    /\ dirst' = d
    /\ ev' = NoEvent
    /\ UNCHANGED <<made, rwsc, fd, fdtab, flocks, fexists, fdata, callVars,
                   histVars>>

Next ==
    \/ \E i \in Inst : TryLock(i)
    \/ \E i \in Inst : UnLock(i)
    \/ \E i \in Inst, done \in BOOLEAN : LockContextStart(i, done)
    \/ \E p \in Proc : TryAttempt(p)
    \/ \E p \in Proc : TrySelectDone(p)
    \/ \E p \in Proc : TrySelectTimer(p)
    \/ \E p \in Proc : CtxFire(p)
    \/ \E p \in Proc : ProcExit(p)

Spec == Init /\ [][Next]_vars

SpecAll == InitAll /\ [][Next]_vars

SpecTwins == InitTwins /\ [][Next]_vars

SpecData == InitData /\ [][Next]_vars

(***************************************************************************)
(* The same program while an administrator changes permissions: two        *)
(* processes with one Lock each, on the same lock file.                    *)
(***************************************************************************)
InitEnv == InitWith(OneFile)

NextEnv ==
    \/ Next
    \/ \E d \in DirStates : Chmod(d)

SpecEnv == InitEnv /\ [][NextEnv]_vars

(***************************************************************************)
(* Progress of LockContext.  The goroutine that runs the call is scheduled *)
(* and the timer of time.After fires (weak fairness of the attempt and of  *)
(* the timer case), and select picks uniformly at random among             *)
(* the cases that are ready, so that it does not pass over a ready         *)
(* ctx.Done() for ever (strong fairness of the Done case).  Nothing forces *)
(* a process to start a call, to release a lock or to exit, nor a context  *)
(* to become Done.                                                         *)
(***************************************************************************)
Fairness ==
    \A p \in Proc :
        /\ WF_vars(TryAttempt(p) \/ TrySelectTimer(p))
        /\ SF_vars(TrySelectDone(p))

InitLive == InitWith(OneFile) /\ dirst = "dir"

LiveSpec == InitLive /\ [][Next]_vars /\ Fairness

(***************************************************************************)
(* Properties                                                              *)
(***************************************************************************)
\* processes other than the owner of instance i that hold the record lock
\* on the file of i
Others(i) == flocks[InstPath[i]] \ {InstProc[i]}

\* processes that have an acquisition on f which they have not released
Holders(f) == {p \in Proc : <<p, f>> \in acq}

\* the last step was a complete call of op, or the step in which a
\* LockContext call returned
Returned(op) == ev.op = op /\ ev.returned

\* C1: mutual exclusion across processes.  For every lock file, at most one
\* process has got nil from TryLock or LockContext on the file without
\* having called UnLock on it or having exited since.
C1_MutualExclusion ==
    \A f \in File : Cardinality(Holders(f)) <= 1

\* C2: a TryLock by a process on a file whose lock another process holds
\* returns an error, EAGAIN when the file could be opened, and leaves the
\* caller without the lock; a TryLock on a file whose lock no other process
\* holds (any more) returns nil and the caller holds the lock.
C2_TryLockContended ==
    Returned("TryLock") =>
        LET i == ev.inst
            p == InstProc[i]
            f == InstPath[i]
        IN  /\ (Others(i) # {} =>
                  /\ ev.ret # Nil
                  /\ p \notin flocks[f]
                  /\ (dirst = "dir" => ev.ret = Err("fcntl", "EAGAIN", "")))
            /\ (Others(i) = {} /\ dirst = "dir" =>
                  /\ ev.ret = Nil
                  /\ flocks[f] = {p})

\* C2 witness: a process gets nil from TryLock on a file that another
\* process had locked and has released by UnLock.
C2_Witness ==
    /\ Returned("TryLock")
    /\ ev.ret = Nil
    /\ flocks[InstPath[ev.inst]] = {InstProc[ev.inst]}
    /\ \E j \in everAcq :
          /\ InstProc[j] # InstProc[ev.inst]
          /\ InstPath[j] = InstPath[ev.inst]
          /\ <<InstProc[j], InstPath[j]>> \notin acq

\* C4: LockContext makes at least one lock attempt even when its context is
\* already Done: it never returns the error of the context without having
\* called fn().
C4_AtLeastOneTry ==
    Returned("LockContext") /\ ev.ret = CtxErr => ev.attempts >= 1

\* C5, as stated: the directory check runs exactly once per LockContext
\* call, whatever the number of iterations of the retry loop.
C5_DirCheckOnce ==
    ev.op = "LockContext" => ev.dirChecks = 1

\* C5, amended: the directory check runs once before the retry loop and once
\* more at the start of every iteration, because the function that is
\* retried is TryLock; an iteration is a stat of the directory followed,
\* when the directory is usable, by the open-and-lock attempt.
C5_DirCheckPerAttempt ==
    /\ ev.op = "LockContext" => ev.dirChecks = 1 + ev.attempts
    /\ ev.op = "LockContext" /\ ev.step = "attempt" => Head(ev.sys) = "stat"
    /\ \A p \in Proc : pc[p] # "idle" => dirChecks[p] = 1 + attempts[p]

\* C5 witness: a LockContext call has gone through an iteration of the
\* loop and has checked the directory a second time.
C5_Witness ==
    /\ ev.op = "LockContext"
    /\ ev.step = "attempt"
    /\ ev.attempts = 1
    /\ ev.dirChecks = 2
    /\ ev.sys = <<"stat", "open", "fcntl", "close">>

\* C6: UnLock on an instance that never got nil from TryLock or LockContext
\* returns nil.
C6_UnLockNeverAcquired ==
    Returned("UnLock") /\ ev.inst \notin everAcq => ev.ret = Nil

\* C7: round trip.  After a TryLock that returned nil on an instance, the
\* UnLock that follows on the instance returns nil, and the TryLock that
\* follows the UnLock, made while no other process holds the lock, returns
\* nil and the process holds the lock again.
C7_RoundTrip ==
    /\ (Returned("UnLock") /\ rt = [inst |-> ev.inst, stage |-> "TU"]
            => ev.ret = Nil)
    /\ (Returned("TryLock") /\ rt = [inst |-> ev.inst, stage |-> "TUT"]
         /\ Others(ev.inst) = {} /\ dirst = "dir"
            => /\ ev.ret = Nil
               /\ InstProc[ev.inst] \in flocks[InstPath[ev.inst]])

\* C7 witness: the second TryLock of a round trip has returned nil.
C7_Witness ==
    /\ Returned("TryLock")
    /\ rt = [inst |-> ev.inst, stage |-> "TUT"]
    /\ ev.ret = Nil
    /\ ev.sys = <<"stat", "fcntl">>

\* C9: fast fail on a path conflict.  When the lock directory path is a
\* regular file or lies under a regular file, TryLock and LockContext return
\* an error that says so and names the path, having issued a stat and
\* nothing else: no mkdir, no open, no lock request, no iteration, no wait.
C9_FastFailNotDir ==
    dirst \in {"notdir", "underfile"} =>
        /\ \A p \in Proc : pc[p] = "idle"
        /\ \A f \in File : flocks[f] = {}
        /\ \A p \in Proc, n \in Fds : fdtab[p][n] = NoFile
        /\ (ev.op \in {"TryLock", "LockContext"} =>
              /\ ev.returned
              /\ ev.ret.errno \in {"not directory", "ENOTDIR"}
              /\ ev.ret.path = Dir(InstPath[ev.inst])
              /\ ev.sys = <<"stat">>
              /\ ev.attempts = 0)

\* C9 witness: a LockContext call has failed on the path conflict.
C9_Witness ==
    /\ dirst \in {"notdir", "underfile"}
    /\ Returned("LockContext")
    /\ ev.ret.errno \in {"not directory", "ENOTDIR"}

\* the errors createLockDir can return
DirErrs ==
    {Err("createLockDir", "not directory", Dir(f)) : f \in File} \cup
    {Err("stat", "ENOTDIR", Dir(f)) : f \in File} \cup
    {Err("stat", "EACCES", Dir(f)) : f \in File} \cup
    {Err("mkdir", "EACCES", Dir(f)) : f \in File}

RetOf(p) == Returned("LockContext") /\ InstProc[ev.inst] = p

\* the last step is the exit of process p
Exited(p) == ev.op = "exit" /\ InstProc[ev.inst] = p

\* process p is inside LockContext and another process holds the lock
Contended(p) == pc[p] # "idle" /\ Others(cur[p]) # {}

\* process p is inside LockContext and no other process holds the lock
Free(p) == pc[p] # "idle" /\ Others(cur[p]) = {}

\* C3: deadline respected.  Once the context of a LockContext call is Done
\* while another process holds the lock, the call returns the error of the
\* context, unless the lock is let go of first (or the process exits): it
\* neither loops for ever nor returns the error of the lock request.
C3_DeadlineRespected ==
    \A p \in Proc :
        (Contended(p) /\ ctxDone[p])
            ~> (\/ RetOf(p) /\ ev.ret = CtxErr
                \/ Free(p)
                \/ Exited(p))

\* C3 witness: a LockContext call has returned the error of the context
\* from the select, after a failed attempt, while another process holds the
\* lock.
C3_Witness ==
    /\ Returned("LockContext")
    /\ ev.step = "done"
    /\ ev.ret = CtxErr
    /\ ev.attempts >= 1
    /\ Others(ev.inst) # {}

AttemptErr ==
    IF ev.op = "TryLock" THEN ev.ret
    ELSE IF ev.op = "LockContext" /\ ev.step = "attempt" THEN ev.fnErr
    ELSE Nil

\* C11: fail fast on a permission error.  When an attempt of LockContext
\* fails with permission denied, the open of the lock file in an existing
\* directory included, LockContext returns that error in the same step: it
\* does not go on to the select, and does not return the context error later.
C11_FailFastPermission ==
    ev.op = "LockContext" /\ ev.step = "attempt" /\ ev.fnErr.errno = "EACCES"
        => ev.returned /\ ev.ret = ev.fnErr

\* the lock directory exists, whatever its permissions
DirExists(d) == d \in {"dir", "dir_noperm", "noaccess"}

\* C12: creation.  When TryLock or LockContext returns nil, the lock
\* directory and the lock file exist; a lock file that a step creates is
\* empty, and no step removes, truncates or writes to a lock file that
\* exists.
C12_Creation ==
    [][/\ \A f \in File :
            fexists[f] => fexists'[f] /\ fdata'[f] = fdata[f]
       /\ \A f \in File :
            ~fexists[f] /\ fexists'[f] => ~fdata'[f]
       /\ (ev'.op \in {"TryLock", "LockContext"} /\ ev'.returned
              /\ ev'.ret = Nil
             => DirExists(dirst') /\ fexists'[InstPath[ev'.inst]])]_vars

\* C12 witness: a call has returned nil having made the lock directory and
\* opened the lock file, which exists now and is empty.
C12_Witness ==
    /\ ev.op \in {"TryLock", "LockContext"}
    /\ ev.returned
    /\ ev.ret = Nil
    /\ ev.sys = <<"stat", "mkdir", "open", "fcntl">>
    /\ dirst = "dir"
    /\ fexists[InstPath[ev.inst]]
    /\ ~fdata[InstPath[ev.inst]]

\* C13: held until released.  After a Lock instance has got nil from TryLock
\* or LockContext, and until UnLock is called on it or its process exits,
\* its ReadWriteSeekCloser stays set and its process holds the record lock
\* on its file.
C13_HeldUntilReleased ==
    \A i \in held :
        /\ rwsc[i]
        /\ InstProc[i] \in flocks[InstPath[i]]

\* the descriptors process p has open on lock files
OpenFds(p) == {n \in Fds : fdtab[p][n] # NoFile}

\* C14: no descriptor leak.  An instance whose ReadWriteSeekCloser is set
\* owns one open descriptor, on its lock file, which no other instance
\* owns; an instance whose ReadWriteSeekCloser is nil owns none: a process
\* has as many descriptors open on lock files as it has instances with the
\* field set.
C14_NoDescriptorLeak ==
    /\ \A i \in Inst :
          rwsc[i] => /\ fd[i] \in Fds
                     /\ fdtab[InstProc[i]][fd[i]] = InstPath[i]
    /\ \A i, j \in Inst :
          rwsc[i] /\ rwsc[j] /\ InstProc[i] = InstProc[j] /\ i # j
              => fd[i] # fd[j]
    /\ \A p \in Proc :
          Cardinality(OpenFds(p))
              = Cardinality({i \in InstOf(p) : rwsc[i]})

\* C14 witness: an attempt has failed on the lock request and has closed
\* the file it opened, while another instance of the process keeps its
\* file open.
C14_Witness ==
    /\ ev.op \in {"TryLock", "LockContext"}
    /\ ev.sys = <<"stat", "open", "fcntl", "close">>
    /\ ~rwsc[ev.inst]
    /\ \E j \in InstOf(InstProc[ev.inst]) : rwsc[j]

\* the last step is a lock attempt on an instance: a TryLock call, or the
\* fn() call of an iteration of LockContext
IsAttempt(e) ==
    \/ e.op = "TryLock"
    \/ e.op = "LockContext" /\ e.step = "attempt"

\* C15: close on failure.  When the lock request of an attempt fails, the
\* attempt closes the file, whether it has just opened it or the file was
\* open already, and clears the field, and hands the error of the request
\* on; and an attempt that issues a lock request on an instance whose field
\* is nil has opened the file first.
C15_CloseOnFailure ==
    [][IsAttempt(ev') =>
         LET i == ev'.inst
             p == InstProc[i]
             e == IF ev'.op = "TryLock" THEN ev'.ret ELSE ev'.fnErr
             s == ev'.sys
             n == Len(s)
             Has(c) == \E k \in 1..n : s[k] = c
         IN  /\ (e.op = "fcntl" =>
                   /\ n >= 2 /\ s[n - 1] = "fcntl" /\ s[n] = "close"
                   /\ ~rwsc'[i]
                   /\ fdtab'[p][fd'[i]] = NoFile
                   /\ Cardinality({m \in Fds : fdtab'[p][m] # NoFile})
                        = Cardinality({m \in Fds : fdtab[p][m] # NoFile})
                            - (IF rwsc[i] THEN 1 ELSE 0))
             /\ (Has("fcntl") /\ ~rwsc[i] => Has("open"))
             /\ (Has("fcntl") /\ rwsc[i] => ~Has("open"))]_vars

\* C15 witness: an attempt on an instance whose file was open already has
\* failed on the lock request and has closed the file.
C15_Witness ==
    /\ IsAttempt(ev)
    /\ ev.sys = <<"stat", "fcntl", "close">>
    /\ ~rwsc[ev.inst]
    /\ fdtab[InstProc[ev.inst]][fd[ev.inst]] = NoFile
    /\ Others(ev.inst) # {}

\* C16: UnLock issues its unlock request on the descriptor the instance has
\* open, or on the zero value of an instance that never opened a file, never
\* on the number of a descriptor the instance has closed; so that an UnLock
\* on an instance leaves the record locks on the other lock files alone.
C16_UnLockOwnDescriptor ==
    Returned("UnLock") =>
        LET i == ev.inst
            p == InstProc[i]
        IN  /\ (rwsc[i] \/ fd[i] = 0)
            /\ \A j \in held \cap InstOf(p) :
                  InstPath[j] # InstPath[i] => p \in flocks[InstPath[j]]

\* C17: frame of UnLock.  UnLock issues one fcntl and nothing else: it
\* leaves the ReadWriteSeekCloser and fd fields of every instance and the
\* descriptors of the process as they are; the TryLock that follows an
\* UnLock on an instance that had the lock issues its lock request on the
\* same descriptor without opening the file.
C17_UnLockFrame ==
    [][/\ (ev'.op = "UnLock" =>
             /\ rwsc' = rwsc
             /\ fd' = fd
             /\ fdtab' = fdtab
             /\ ev'.sys = <<"fcntl">>)
       /\ (ev'.op = "TryLock" /\ rt = [inst |-> ev'.inst, stage |-> "TU"] =>
             /\ rwsc[ev'.inst]
             /\ fd'[ev'.inst] = fd[ev'.inst]
             /\ \A k \in DOMAIN ev'.sys : ev'.sys[k] # "open")]_vars

\* C17 witness: an UnLock has returned on an instance that had the lock;
\* the file of the instance is still open and the lock is released.
C17_Witness ==
    /\ Returned("UnLock")
    /\ rt = [inst |-> ev.inst, stage |-> "TU"]
    /\ rwsc[ev.inst]
    /\ fdtab[InstProc[ev.inst]][fd[ev.inst]] = InstPath[ev.inst]
    /\ InstProc[ev.inst] \notin flocks[InstPath[ev.inst]]

\* the instances of the process of i, other than i, on the lock file of i
\* whose file is open
Siblings(i) ==
    {j \in Inst \ {i} : /\ InstProc[j] = InstProc[i]
                        /\ InstPath[j] = InstPath[i]
                        /\ rwsc[j]}

\* C18: process-scoped locking.  A TryLock on a lock file of which the
\* process holds the lock already through another of its instances returns
\* nil, on a descriptor of its own, and the process holds the lock; a
\* TryLock on a lock file of which another process holds the lock returns
\* an error.
C18_ProcessScoped ==
    [][ev'.op = "TryLock" =>
         LET i == ev'.inst
             p == InstProc[i]
             f == InstPath[i]
         IN  /\ (p \in flocks[f] /\ Siblings(i) # {} =>
                   /\ ev'.ret = Nil
                   /\ rwsc'[i]
                   /\ \A j \in Siblings(i) : rwsc'[j] /\ fd'[j] # fd'[i]
                   /\ flocks'[f] = {p})
             /\ (flocks[f] \ {p} # {} =>
                   /\ ev'.ret # Nil
                   /\ flocks'[f] = flocks[f])]_vars

\* C18 witness: two instances of one process have got nil from TryLock on
\* the same lock file, neither has been unlocked, and the process holds the
\* lock.
C18_Witness ==
    /\ Returned("TryLock")
    /\ ev.ret = Nil
    /\ ev.sys = <<"stat", "open", "fcntl">>
    /\ \E j \in held \ {ev.inst} :
          /\ InstProc[j] = InstProc[ev.inst]
          /\ InstPath[j] = InstPath[ev.inst]
          /\ rwsc[j]
    /\ ev.inst \in held
    /\ flocks[InstPath[ev.inst]] = {InstProc[ev.inst]}

\* C19: cancellation points.  An attempt of LockContext that succeeds makes
\* the call return nil in the same step, with the lock, whether or not the
\* context was Done during the attempt; an attempt that fails takes no lock;
\* the context error is returned from the entry of try or from the select
\* only, in a step that takes no lock; and the context becoming Done moves
\* no call.
C19_CancellationPoints ==
    [][/\ (ev'.op = "LockContext" /\ ev'.step = "attempt" =>
             LET i == ev'.inst
                 p == InstProc[i]
                 f == InstPath[i]
             IN  IF ev'.fnErr = Nil
                 THEN /\ ev'.returned
                      /\ ev'.ret = Nil
                      /\ p \in flocks'[f]
                      /\ i \in held'
                      /\ pc'[p] = "idle"
                 ELSE /\ flocks'[f] \subseteq flocks[f]
                      /\ held' = held
                      /\ ev'.ret # CtxErr)
       /\ (ev'.op = "LockContext" /\ ev'.returned /\ ev'.ret = CtxErr =>
             /\ ev'.step \in {"entry", "done"}
             /\ flocks' = flocks
             /\ held' = held)
       /\ (ctxDone' # ctxDone /\ pc' = pc => flocks' = flocks /\ ev' = NoEvent)
      ]_vars

\* C19 witness: an attempt made while the context was Done has succeeded,
\* after an earlier one had failed, and LockContext has returned nil with
\* the lock.
C19_Witness ==
    /\ Returned("LockContext")
    /\ ev.step = "attempt"
    /\ ev.done
    /\ ev.ret = Nil
    /\ ev.attempts >= 2
    /\ ev.inst \in held
    /\ InstProc[ev.inst] \in flocks[InstPath[ev.inst]]

\* the system calls of a createLockDir call
DirSys == {<<"stat">>, <<"stat", "mkdir">>}

\* C20: TryLock is a single shot.  A TryLock call is one step, after which
\* its process is in no loop; it issues the directory check, then the open
\* when the field is nil and only then, then one lock request, each at most
\* once and in this order; the error of a step is returned as it is and
\* ends the call: nothing follows a failed directory check, nothing follows
\* a failed open, which leaves the field nil and the descriptors and locks
\* as they are, and only the close follows a failed lock request.
C20_TryLockSingleShot ==
    [][ev'.op = "TryLock" =>
         LET i == ev'.inst
             p == InstProc[i]
             e == ev'.ret
             s == ev'.sys
             op == IF rwsc[i] THEN <<>> ELSE <<"open">>
             frame == /\ rwsc'[i] = rwsc[i]
                      /\ fd'[i] = fd[i]
                      /\ fdtab' = fdtab
                      /\ flocks' = flocks
         IN  /\ ev'.returned
             /\ pc' = pc
             /\ pc'[p] = "idle"
             /\ ev'.attempts = 0
             /\ (dirst \in {"notdir", "underfile", "noaccess", "absent_ro"}
                    => e.op \in {"createLockDir", "stat", "mkdir"})
             /\ CASE e.op \in {"createLockDir", "stat", "mkdir"} ->
                       s \in DirSys /\ frame
                  [] e.op = "open" ->
                       /\ ~rwsc[i]
                       /\ \E d \in DirSys : s = d \o <<"open">>
                       /\ frame
                  [] e.op = "fcntl" ->
                       /\ \E d \in DirSys : s = d \o op \o <<"fcntl", "close">>
                       /\ e.errno = "EAGAIN"
                  [] e = Nil ->
                       \E d \in DirSys : s = d \o op \o <<"fcntl">>
                  [] OTHER -> FALSE]_vars

\* C20 witness: a TryLock has failed on the open of the lock file and has
\* returned the error of the open, without a lock request, leaving the
\* field nil.
C20_Witness ==
    /\ Returned("TryLock")
    /\ ev.ret = Err("open", "EACCES", InstPath[ev.inst])
    /\ ev.sys = <<"stat", "open">>
    /\ ~rwsc[ev.inst]
    /\ fd[ev.inst] = 0
=============================================================================
